---- MODULE Spec2Model ----
(***************************************************************************)
(* A model of admin/autoupdater/src/autoupdater.c: one run of main() per   *)
(* process, several processes sharing the device (its UCI configuration,   *)
(* its hardware model and the lock file /var/run/autoupdater.lock), and    *)
(* the function get_probability() on its own.                              *)
(***************************************************************************)
EXTENDS Integers, Sequences, FiniteSets, Bags, TLC

\* ------------------------------------------------------------------ bounds

\* Number of autoupdater processes started on the device.
NProcs == 2
\* Longest "mirror" list of a branch section.
MaxMirrors == 3
\* Largest priority (in days) of the small get_probability() inputs.
MaxPriority == 3
\* A priority whose rollout window ends beyond 2^24 seconds, where a float
\* no longer holds every integer.
BigPriority == 200
\* How many of the last seconds of a rollout window are looked at one by one.
TailSeconds == 16

Procs == 1..NProcs

\* ------------------------------------------------------- program constants

\* The null pointer: a tombstoned slot of G.mirrors, a failed lookup.
NULL == 0
\* Seconds per day, the factor of get_probability().
SecondsPerDay == 86400
\* The uptime below which a wrong clock is blamed on a missing NTP sync,
\* in the hundredths of a second /proc/uptime is written in.
MinUptime == 60000
\* Significand width of a float (IEEE 754 single precision).
FloatMantissaBits == 24

VARIABLES
    \* the device
    argv,           \* the options every run is started with (the cron entry)
    platformOk,     \* platforminfo_get_image_name() returns a name
    config,         \* the UCI package "autoupdater"
    lockHolder,     \* the process holding the flock on the lock file, or NULL
    \* each process
    pc,             \* where the process is in main()
    G,              \* struct globals
    mirrors_left,   \* main(): live entries of G.mirrors
    i,              \* main(): live entries still to walk over
    mirror,         \* main(): the cursor, an index into G.mirrors (0-based)
    attempts,       \* the bag of array slots autoupdate() was called on
    succeeded,      \* an attempt of the run would have updated the device
    exitStatus,     \* <<status>> once the process has exited, <<>> before
    msg,            \* the last line written to stderr
    \* get_probability() on its own
    date,           \* the manifest's announcement time
    priority,       \* the manifest's priority, in days
    now,            \* time(NULL)
    uptime,         \* the number /proc/uptime starts with, in 1/100 s
    uptimeReadable, \* /proc/uptime can be opened and parsed
    probability     \* what get_probability() did

devVars == <<argv, platformOk, config, lockHolder>>
procVars == <<pc, G, mirrors_left, i, mirror, attempts, succeeded, exitStatus, msg>>
probVars == <<date, priority, now, uptime, uptimeReadable, probability>>
vars == <<devVars, procVars, probVars>>

\* ---------------------------------------------------------------- strings

\* A C string is a sequence of characters; a char pointer is such a string
\* or the null pointer.
NullStr == [null |-> TRUE, str |-> <<>>]
Str(s) == [null |-> FALSE, str |-> s]

\* The branch name used by the configurations below, the name of the
\* settings section and a name no section has.
Stable == <<"s", "t", "a", "b", "l", "e">>
Settings == <<"s", "e", "t", "t", "i", "n", "g", "s">>
Ghost == <<"g", "h", "o", "s", "t">>

\* The value of a digit character in the given base, or -1.
DigitValue(c, base) ==
    LET v == CASE c = "0" -> 0 [] c = "1" -> 1 [] c = "2" -> 2 [] c = "3" -> 3
               [] c = "4" -> 4 [] c = "5" -> 5 [] c = "6" -> 6 [] c = "7" -> 7
               [] c = "8" -> 8 [] c = "9" -> 9 [] c = "a" -> 10 [] c = "f" -> 15
               [] OTHER -> -1
    IN  IF v < base THEN v ELSE -1

RECURSIVE ParseDigits(_, _, _, _)
\* The digits of str from position k on, accumulated into acc: the value and
\* the position of the first character that is no digit of the base.
ParseDigits(str, k, base, acc) ==
    IF k > Len(str) \/ DigitValue(str[k], base) < 0
    THEN [ret |-> acc, endpos |-> k]
    ELSE ParseDigits(str, k + 1, base, acc * base + DigitValue(str[k], base))

\* strtoul(str, &end, 0): the number str starts with (hexadecimal after 0x,
\* octal after 0, decimal otherwise) and the rest of str it did not read.
strtoul(str) ==
    LET hex == /\ Len(str) >= 3
               /\ str[1] = "0"
               /\ str[2] = "x"
               /\ DigitValue(str[3], 16) >= 0
        base == IF hex THEN 16 ELSE IF Len(str) >= 1 /\ str[1] = "0" THEN 8 ELSE 10
        r == ParseDigits(str, IF hex THEN 3 ELSE 1, base, 0)
    IN  [ret |-> r.ret, end |-> SubSeq(str, r.endpos, Len(str))]

\* ------------------------------------------------------------- UCI values

\* An option of a section: absent, a string, or a list of strings.
NoOption == [type |-> "none", string |-> <<>>, list |-> <<>>]
StringOption(s) == [type |-> "string", string |-> s, list |-> <<>>]
ListOption(l) == [type |-> "list", string |-> <<>>, list |-> l]

OptionNames ==
    {"branch", "version_file", "enabled", "good_signatures", "mirror", "pubkey"}

\* A section with the given options, every other option absent.
Section(name, type, options) ==
    [name |-> name, type |-> type,
     options |-> [o \in OptionNames |->
                    IF o \in DOMAIN options THEN options[o] ELSE NoOption]]

\* uci_lookup_option(): the option as <<option>>, or <<>> (NULL) when the
\* section has none of that name.
uci_lookup_option(s, option) ==
    IF s.options[option].type = "none" THEN <<>> ELSE <<s.options[option]>>

\* uci_lookup_option_string(): the option's string, or NULL when the option
\* is absent or is not a string.
uci_lookup_option_string(s, option) ==
    IF s.options[option].type = "string"
    THEN Str(s.options[option].string)
    ELSE NullStr

\* uci_lookup_section(): the package's section of that name as <<section>>,
\* or <<>> (NULL) when there is none.
uci_lookup_section(p, name) ==
    LET found == {k \in 1..Len(p.sections) : p.sections[k].name = name}
    IN  IF found = {} THEN <<>>
        ELSE <<p.sections[CHOOSE k \in found : \A l \in found : k <= l]>>

\* The mirrors of a list of n entries: the strings are opaque to the
\* program, the k-th is written k.
MirrorList(n) == [k \in 1..n |-> k]

\* The package /etc/config/autoupdater: whether uci_load() succeeds, and
\* its sections in file order.
Package(loads, sections) == [loads |-> loads, sections |-> sections]

SettingsSection(branch, enabled) ==
    Section(Settings, "settings", ("branch" :> branch) @@ ("enabled" :> enabled))

BranchSection(good_signatures, mirrors, pubkeys) ==
    Section(Stable, "branch",
            ("good_signatures" :> good_signatures) @@ ("mirror" :> mirrors)
                @@ ("pubkey" :> pubkeys))

\* The values of the "enabled" option the runs are given.
EnabledOptions == {NoOption, StringOption(<<"0">>), StringOption(<<"1">>)}

GoodBranchOption == StringOption(Stable)
GoodSignatures == StringOption(<<"2">>)
GoodPubkeys == ListOption(<<1>>)
GoodBranchSection(n) ==
    BranchSection(GoodSignatures, ListOption(MirrorList(n)), GoodPubkeys)

\* A configuration with every required setting, n mirrors.
GoodConfig(n, enabled) ==
    Package(TRUE, <<SettingsSection(GoodBranchOption, enabled), GoodBranchSection(n)>>)

\* Configurations with one required setting missing or invalid.
BadConfigs(enabled) ==
    LET n == MaxMirrors IN
    {Package(FALSE, <<>>),
     Package(TRUE, <<GoodBranchSection(n)>>)}
    \cup {Package(TRUE, <<SettingsSection(b, enabled), GoodBranchSection(n)>>) :
            b \in {NoOption, StringOption(Ghost), StringOption(Settings)}}
    \cup {Package(TRUE, <<SettingsSection(GoodBranchOption, enabled),
                          BranchSection(g, ListOption(MirrorList(n)), GoodPubkeys)>>) :
            g \in {NoOption, StringOption(<<"0">>), StringOption(<<"x">>),
                   StringOption(<<"2", "x">>), StringOption(<<>>)}}
    \cup {Package(TRUE, <<SettingsSection(GoodBranchOption, enabled),
                          BranchSection(GoodSignatures, m, GoodPubkeys)>>) :
            m \in {NoOption, StringOption(<<"u">>)}}
    \cup {Package(TRUE, <<SettingsSection(GoodBranchOption, enabled),
                          BranchSection(GoodSignatures, ListOption(MirrorList(n)), k)>>) :
            k \in {NoOption, StringOption(<<"k">>)}}

Configs ==
    UNION {{GoodConfig(n, e) : n \in 0..MaxMirrors} \cup BadConfigs(e) :
              e \in EnabledOptions}

\* ------------------------------------------------------------ parse_args

\* What getopt_long() returns for the options of the command line.
OPTION_BRANCH == "b"
OPTION_FORCE == "f"
OPTION_HELP == "h"
OPTION_FALLBACK == "fallback"
UnknownOption == "?"
Options == {OPTION_BRANCH, OPTION_FORCE, OPTION_HELP, OPTION_FALLBACK, UnknownOption}

\* The command lines the runs are started with: up to two options.
ArgLists == {<<>>} \cup {<<a>> : a \in Options} \cup {<<a, b>> : a, b \in Options}

\* What a function that may call exit() hands back: the globals as it left
\* them, <<status>> when it called exit(status) and <<>> when it returned,
\* and the line it wrote to stderr.
Returned(g) == [G |-> g, exit |-> <<>>, msg |-> ""]
Exited(g, status, message) == [G |-> g, exit |-> <<status>>, msg |-> message]

\* The switch of parse_args() on one option c. No case ends in a break, so
\* control runs from the matching label through every later one, down to the
\* exit(0) of case OPTION_HELP; an unknown option runs the default case.
ParseOption(g, c) ==
    LET g1 == IF c = OPTION_BRANCH
              THEN [g EXCEPT !.branch = Str(Stable)] ELSE g
        g2 == IF c \in {OPTION_BRANCH, OPTION_FORCE}
              THEN [g1 EXCEPT !.force = TRUE] ELSE g1
        g3 == IF c \in {OPTION_BRANCH, OPTION_FORCE, OPTION_FALLBACK}
              THEN [g2 EXCEPT !.fallback = TRUE] ELSE g2
    IN  IF c \in {OPTION_BRANCH, OPTION_FORCE, OPTION_FALLBACK, OPTION_HELP}
        THEN Exited(g3, 0, "usage")
        ELSE Exited(g3, 1, "usage")

RECURSIVE parse_args(_, _)
\* parse_args(): the getopt loop over the options still to read.
parse_args(g, args) ==
    IF args = <<>>
    THEN Returned(g)
    ELSE LET r == ParseOption(g, Head(args))
         IN  IF r.exit # <<>> THEN r ELSE parse_args(r.G, Tail(args))

\* ---------------------------------------------------------- load_settings

\* load_positive_number() without the test for zero.
load_positive_number_zero(g, s, option) ==
    LET str == uci_lookup_option_string(s, option) IN
    IF str.null
    THEN Exited(g, 1, "unable to load option") @@ [ret |-> 0]
    ELSE LET n == strtoul(str.str) IN
         IF n.end # <<>>
         THEN Exited(g, 1, "invalid value for option") @@ [ret |-> 0]
         ELSE Returned(g) @@ [ret |-> n.ret]

\* load_positive_number(): the option as a number > 0, or exit(1).
load_positive_number(g, s, option) ==
    LET str == uci_lookup_option_string(s, option) IN
    IF str.null
    THEN Exited(g, 1, "unable to load option") @@ [ret |-> 0]
    ELSE LET n == strtoul(str.str) IN
         IF n.end # <<>> \/ n.ret = 0
         THEN Exited(g, 1, "invalid value for option") @@ [ret |-> 0]
         ELSE Returned(g) @@ [ret |-> n.ret]

\* load_string_list(): the entries of a list option, or exit(1).
load_string_list(g, s, option) ==
    LET o == uci_lookup_option(s, option) IN
    IF o = <<>>
    THEN Exited(g, 1, "unable to load option") @@ [ret |-> <<>>]
    ELSE IF o[1].type # "list"
    THEN Exited(g, 1, "invalid value for option") @@ [ret |-> <<>>]
    ELSE Returned(g) @@ [ret |-> o[1].list]

\* The test with an absent option taken for an enabled autoupdater.
is_disabled_unless_absent(enabled, force) ==
    (~enabled.null /\ enabled.str # <<"1">>) /\ ~force

\* The test with the result of strcmp() read the wrong way round.
is_disabled_inverted(enabled, force) ==
    (enabled.null \/ enabled.str = <<"1">>) /\ ~force

\* The test load_settings() ends with: the option enabled is absent or is
\* not "1", and the run is not forced.
is_disabled(enabled, force) ==
    (enabled.null \/ enabled.str # <<"1">>) /\ ~force

\* load_settings(): reads the package p into the globals g. The option
\* version_file is absent from every configuration above, so G.old_version
\* stays NULL and is left out of the globals.
load_settings(g, p) ==
    LET found == {k \in 1..Len(p.sections) : p.sections[k].type = "settings"} IN
    IF ~p.loads \/ found = {}
    THEN Exited(g, 1, "unable to load UCI settings")
    ELSE
    LET s == p.sections[CHOOSE k \in found : \A l \in found : k <= l]
        g1 == IF g.branch.null
              THEN [g EXCEPT !.branch = uci_lookup_option_string(s, "branch")]
              ELSE g
    IN
    IF g1.branch.null
    THEN Exited(g1, 1, "no branch given in settings or command line")
    ELSE
    LET branch == uci_lookup_section(p, g1.branch.str) IN
    IF branch = <<>> \/ branch[1].type # "branch"
    THEN Exited(g1, 1, "unable to load branch configuration")
    ELSE
    LET n == load_positive_number(g1, branch[1], "good_signatures") IN
    IF n.exit # <<>> THEN Exited(g1, n.exit[1], n.msg)
    ELSE
    LET g2 == [g1 EXCEPT !.good_signatures = n.ret]
        m == load_string_list(g2, branch[1], "mirror")
    IN
    IF m.exit # <<>> THEN Exited(g2, m.exit[1], m.msg)
    ELSE
    LET g3 == [g2 EXCEPT !.mirrors = m.ret, !.n_mirrors = Len(m.ret)]
        k == load_string_list(g3, branch[1], "pubkey")
    IN
    IF k.exit # <<>> THEN Exited(g3, k.exit[1], k.msg)
    ELSE
    LET g4 == [g3 EXCEPT !.pubkeys = k.ret, !.n_pubkeys = Len(k.ret)]
        enabled == uci_lookup_option_string(s, "enabled")
    IN
    IF is_disabled(enabled, g4.force)
    THEN Exited(g4, 0, "autoupdater is disabled")
    ELSE Returned(g4)

\* -------------------------------------------------------- get_probability

RECURSIVE Pow(_, _)
Pow(b, e) == IF e = 0 THEN 1 ELSE b * Pow(b, e - 1)

RECURSIVE ExcessBits(_, _)
\* How many low bits an integer n >= 0 loses in a float: the least k with
\* n < 2^(FloatMantissaBits + k).
ExcessBits(n, k) ==
    IF n < Pow(2, FloatMantissaBits) THEN k ELSE ExcessBits(n \div 2, k + 1)

\* The conversion of an integer n >= 0 to float: n itself when it fits the
\* significand, else the nearest multiple of 2^k, a tie going to the even
\* significand.
ToFloat(n) ==
    LET k == ExcessBits(n, 0)
        unit == Pow(2, k)
        q == n \div unit
        r == n % unit
        up == 2 * r > unit \/ (2 * r = unit /\ q % 2 = 1)
    IN  IF k = 0 THEN n ELSE (IF up THEN q + 1 ELSE q) * unit

\* The least and the bound of a normal significand: 2^23 and 2^24.
MantissaMin == Pow(2, FloatMantissaBits - 1)
MantissaMax == Pow(2, FloatMantissaBits)

\* A float is <<m, e>>, standing for m * 2^e: m = 0, or m of exactly
\* FloatMantissaBits bits (negative for a negative float). The exponents
\* of get_probability() stay far from the ends of the float's range.
FloatZero == <<0, 0>>

RECURSIVE Float(_, _)
\* The float n * 2^e, for a natural n that has at most FloatMantissaBits
\* significant bits.
Float(n, e) ==
    IF n = 0 THEN FloatZero
    ELSE IF n >= MantissaMax THEN Float(n \div 2, e + 1)
    ELSE IF n < MantissaMin THEN Float(2 * n, e - 1)
    ELSE <<n, e>>

FloatOne == Float(1, 0)

\* Round to nearest, ties to even: the significand q at exponent e, with a
\* dropped rest of rest2 / (2 * unit) of its last place.
RoundMantissa(q, rest2, unit, e) ==
    LET up == rest2 > unit \/ (rest2 = unit /\ q % 2 = 1)
        m == IF up THEN q + 1 ELSE q
    IN  IF m = MantissaMax THEN <<MantissaMin, e + 1>> ELSE <<m, e>>

\* a >= b for two floats that are not negative.
MagnitudeGE(a, b) ==
    IF b[1] = 0 THEN TRUE
    ELSE IF a[1] = 0 THEN FALSE
    ELSE a[2] > b[2] \/ (a[2] = b[2] /\ a[1] >= b[1])

\* a >= b for two floats.
FloatGE(a, b) ==
    IF a[1] >= 0 /\ b[1] >= 0 THEN MagnitudeGE(a, b)
    ELSE IF a[1] >= 0 THEN TRUE
    ELSE IF b[1] >= 0 THEN FALSE
    ELSE MagnitudeGE(<<-b[1], b[2]>>, <<-a[1], a[2]>>)

RECURSIVE DivBits(_, _, _, _)
\* n more bits of the quotient q of a long division by d, r < d being the
\* remainder so far: <<quotient, remainder>>.
DivBits(q, r, d, n) ==
    IF n = 0 THEN <<q, r>>
    ELSE IF 2 * r >= d THEN DivBits(2 * q + 1, 2 * r - d, d, n - 1)
    ELSE DivBits(2 * q, 2 * r, d, n - 1)

\* a / b in float, for a >= 0 and b > 0.
FloatDiv(a, b) ==
    IF a[1] = 0 THEN FloatZero
    ELSE LET first == IF a[1] >= b[1] THEN 1 ELSE 0
             n == FloatMantissaBits - first
             qr == DivBits(first, a[1] - first * b[1], b[1], n)
         IN  RoundMantissa(qr[1], 2 * qr[2], b[1], a[2] - b[2] - n)

\* a * b in float, for a >= 0 and b >= 0: the 48-bit product of the
\* significands, from their 12-bit halves, rounded to 24 bits.
FloatMul(a, b) ==
    IF a[1] = 0 \/ b[1] = 0 THEN FloatZero
    ELSE LET half == Pow(2, FloatMantissaBits \div 2)
             h1 == a[1] \div half
             l1 == a[1] % half
             h2 == b[1] \div half
             l2 == b[1] % half
             mid == h1 * l2 + l1 * h2
             low == (mid % half) * half + l1 * l2
             low24 == low % MantissaMax
             high == h1 * h2 + mid \div half + low \div MantissaMax
             e == a[2] + b[2] + FloatMantissaBits
         IN  IF high >= MantissaMin
             THEN RoundMantissa(high, 2 * low24, MantissaMax, e)
             ELSE RoundMantissa(2 * high + low24 \div MantissaMin,
                                2 * (low24 % MantissaMin), MantissaMin, e - 1)

\* The guard bits a subtraction is carried out with: three, in units of 1/8
\* of the last place.
Guard == 8

RECURSIVE RoundWide(_, _)
\* The float of (d / Guard) * 2^e, d > 0 a significand with its guard bits.
RoundWide(d, e) ==
    IF d < MantissaMin * Guard THEN RoundWide(2 * d, e - 1)
    ELSE RoundMantissa(d \div Guard, 2 * (d % Guard), Guard, e)

\* a - b in float, for a >= b >= 0: b is brought to the exponent of a, what
\* falls off its guard bits being kept as a sticky last bit.
SubMagnitude(a, b) ==
    LET k == a[2] - b[2]
        unit == Pow(2, k)
        wide == b[1] * Guard
        shifted == wide \div unit
        sticky == wide % unit # 0
        sub == IF sticky /\ shifted % 2 = 0 THEN shifted + 1 ELSE shifted
        d == a[1] * Guard - sub
    IN  IF b[1] = 0 \/ k > FloatMantissaBits + 1 THEN a
        ELSE IF d = 0 THEN FloatZero
        ELSE RoundWide(d, a[2])

\* a - b in float, for a >= 0 and b >= 0.
FloatSub(a, b) ==
    IF MagnitudeGE(a, b) THEN SubMagnitude(a, b)
    ELSE LET r == SubMagnitude(b, a) IN <<-r[1], r[2]>>

\* get_uptime() giving an uptime of 0 when /proc/uptime cannot be read.
get_uptime_default(g) ==
    Returned(g) @@ [ret |-> IF uptimeReadable THEN uptime ELSE 0]

\* get_uptime(): the uptime, or exit(1) when /proc/uptime cannot be read.
get_uptime(g) ==
    IF uptimeReadable
    THEN Returned(g) @@ [ret |-> uptime]
    ELSE Exited(g, 1, "unable to determine uptime") @@ [ret |-> 0]

\* powf(0.75f, p) for a whole p: 3^p / 4^p, which a float holds exactly as
\* long as 3^p < 2^24.
powf075(p) == Float(Pow(3, p), -2 * p)

\* The fallback step with > for >=.
fallback_probability_strict(diff, seconds) ==
    IF ToFloat(diff) > ToFloat(seconds + SecondsPerDay)
    THEN FloatOne
    ELSE FloatZero

\* The fallback branch of get_probability(): one step, a day after the
\* rollout window has closed. diff >= 0 is a time_t, seconds a float.
fallback_probability(diff, seconds) ==
    IF ToFloat(diff) >= ToFloat(seconds + SecondsPerDay)
    THEN FloatOne
    ELSE FloatZero

\* The rollout window counted in weeks.
window_seconds_weeks(pr) == ToFloat(pr * 7 * SecondsPerDay)

\* float seconds = priority * 86400 for a whole priority.
window_seconds(pr) == ToFloat(pr * SecondsPerDay)

\* The polynomial with its two coefficients swapped.
smoothstep_swapped(x) ==
    FloatSub(FloatMul(FloatMul(Float(2, 0), x), x),
             FloatMul(FloatMul(FloatMul(Float(3, 0), x), x), x))

\* 3*x*x - 2*x*x*x in float, every product and the difference rounded to
\* single precision as they are computed, from left to right.
smoothstep(x) ==
    FloatSub(FloatMul(FloatMul(Float(3, 0), x), x),
             FloatMul(FloatMul(FloatMul(Float(2, 0), x), x), x))

\* get_probability() from diff on: the probability as a float, or
\* exit(1). The priority is a whole number of days. diff is compared and
\* divided as the float it is converted to, and the arithmetic is that of
\* single precision (float operands, FLT_EVAL_METHOD 0, no fused
\* multiply-add).
probability_at(g, diff, pr) ==
    LET seconds == window_seconds(pr)
    IN
    IF diff < 0
    THEN LET up == get_uptime(g) IN
         IF up.exit # <<>> THEN up
         ELSE IF up.ret < MinUptime
         THEN Returned(g) @@ [ret |-> FloatZero]
         ELSE Returned(g) @@ [ret |-> powf075(pr)]
    ELSE IF g.fallback
    THEN Returned(g) @@ [ret |-> fallback_probability(diff, seconds)]
    ELSE IF ToFloat(diff) >= seconds
    THEN Returned(g) @@ [ret |-> FloatOne]
    ELSE Returned(g) @@
             [ret |-> smoothstep(FloatDiv(Float(ToFloat(diff), 0), Float(seconds, 0)))]

\* get_probability(date, priority): diff = time(NULL) - date.
get_probability(g, d, pr) == probability_at(g, now - d, pr)

\* --------------------------------------------------------------- the runs

\* struct globals G = {}.
InitG ==
    [force |-> FALSE, fallback |-> FALSE, branch |-> NullStr,
     n_mirrors |-> 0, mirrors |-> <<>>, n_pubkeys |-> 0, pubkeys |-> <<>>,
     good_signatures |-> 0]

\* The manifest and the clock of the runs of main(): half of a one-day
\* rollout window has passed.
RunManifest ==
    /\ date = 0
    /\ priority = 1
    /\ now = SecondsPerDay \div 2
    /\ uptime = MinUptime
    /\ uptimeReadable = TRUE
    /\ probability = <<>>

ProcInit ==
    /\ lockHolder = NULL
    /\ pc = [p \in Procs |-> "parse_args"]
    /\ mirrors_left = [p \in Procs |-> 0]
    /\ i = [p \in Procs |-> 0]
    /\ mirror = [p \in Procs |-> 0]
    /\ attempts = [p \in Procs |-> EmptyBag]
    /\ succeeded = [p \in Procs |-> FALSE]
    /\ exitStatus = [p \in Procs |-> <<>>]
    /\ msg = [p \in Procs |-> ""]

Init ==
    /\ argv \in ArgLists
    /\ platformOk \in BOOLEAN
    /\ config \in Configs
    /\ G = [p \in Procs |-> InitG]
    /\ ProcInit
    /\ RunManifest

\* A lock that outlives its holder.
ReleasedNever(p) == lockHolder

\* The lock file once process p is gone: the descriptor lock_autoupdater()
\* opened is never closed by the program, so the flock lasts until the
\* process ends and ends with it.
ReleasedBy(p) == IF lockHolder = p THEN NULL ELSE lockHolder

\* Process p has made a call that handed back r: it goes on at `next` when
\* the call returned and is gone when the call exited.
Step(p, r, next) ==
    /\ G' = [G EXCEPT ![p] = r.G]
    /\ IF r.exit = <<>>
       THEN /\ pc' = [pc EXCEPT ![p] = next]
            /\ UNCHANGED <<exitStatus, msg, lockHolder>>
       ELSE /\ pc' = [pc EXCEPT ![p] = "exited"]
            /\ exitStatus' = [exitStatus EXCEPT ![p] = r.exit]
            /\ msg' = [msg EXCEPT ![p] = r.msg]
            /\ lockHolder' = ReleasedBy(p)

\* main(): parse_args(argc, argv).
MainParseArgs(p) ==
    /\ pc[p] = "parse_args"
    /\ Step(p, parse_args(G[p], argv), "platform")
    /\ UNCHANGED <<argv, platformOk, config, mirrors_left, i, mirror, attempts, succeeded, probVars>>

\* main(): the hardware model must be known.
platform_check(g) ==
    IF ~platformOk
    THEN Exited(g, 1, "unsupported hardware model")
    ELSE Returned(g)

MainPlatform(p) ==
    /\ pc[p] = "platform"
    /\ Step(p, platform_check(G[p]), "load_settings")
    /\ UNCHANGED <<argv, platformOk, config, mirrors_left, i, mirror, attempts, succeeded, probVars>>

\* main(): load_settings().
MainLoadSettings(p) ==
    /\ pc[p] = "load_settings"
    /\ Step(p, load_settings(G[p], config), "randomize")
    /\ UNCHANGED <<argv, platformOk, config, mirrors_left, i, mirror, attempts, succeeded, probVars>>

\* randomize(): seeds random() from the monotonic clock, or exit(1).
randomize(g, clockOk) ==
    IF ~clockOk
    THEN Exited(g, 1, "clock_gettime")
    ELSE Returned(g)

MainRandomize(p) ==
    /\ pc[p] = "randomize"
    /\ \E clockOk \in BOOLEAN : Step(p, randomize(G[p], clockOk), "lock")
    /\ UNCHANGED <<argv, platformOk, config, mirrors_left, i, mirror, attempts, succeeded, probVars>>

\* lock_autoupdater() with the result of flock() not looked at.
lock_autoupdater_unchecked(g, p, openOk) ==
    IF ~openOk
    THEN Exited(g, 1, "unable to open lock file") @@ [holder |-> lockHolder]
    ELSE Returned(g) @@ [holder |-> p]

\* lock_autoupdater() in process p: open() gives a descriptor or not, and
\* flock(fd, LOCK_EX|LOCK_NB) fails at once when another process holds the
\* lock. holder is who holds the lock afterwards.
lock_autoupdater(g, p, openOk) ==
    IF ~openOk
    THEN Exited(g, 1, "unable to open lock file") @@ [holder |-> lockHolder]
    ELSE IF lockHolder # NULL
    THEN Exited(g, 1, "another instance is currently running")
             @@ [holder |-> lockHolder]
    ELSE Returned(g) @@ [holder |-> p]

\* main(): lock_autoupdater(), then mirrors_left = G.n_mirrors.
MainLock(p) ==
    /\ pc[p] = "lock"
    /\ \E openOk \in BOOLEAN :
         LET r == lock_autoupdater(G[p], p, openOk) IN
         /\ G' = [G EXCEPT ![p] = r.G]
         /\ IF r.exit = <<>>
            THEN /\ pc' = [pc EXCEPT ![p] = "loop"]
                 /\ lockHolder' = r.holder
                 /\ mirrors_left' = [mirrors_left EXCEPT ![p] = r.G.n_mirrors]
                 /\ UNCHANGED <<exitStatus, msg>>
            ELSE /\ pc' = [pc EXCEPT ![p] = "exited"]
                 /\ exitStatus' = [exitStatus EXCEPT ![p] = r.exit]
                 /\ msg' = [msg EXCEPT ![p] = r.msg]
                 /\ lockHolder' = ReleasedBy(p)
                 /\ UNCHANGED mirrors_left
    /\ UNCHANGED <<argv, platformOk, config, i, mirror, attempts, succeeded, probVars>>

\* The end of main() returning 0.
no_usable_mirror_success(g) == Exited(g, 0, "no usable mirror found")

\* main(): what follows the mirror loop.
no_usable_mirror(g) == Exited(g, 1, "no usable mirror found")

\* main(): while (mirrors_left) is left with no mirror left.
MainLoopEnd(p) ==
    /\ pc[p] = "loop"
    /\ mirrors_left[p] = 0
    /\ Step(p, no_usable_mirror(G[p]), "exited")
    /\ UNCHANGED <<argv, platformOk, config, mirrors_left, i, mirror, attempts, succeeded, probVars>>

\* The head of an iteration with i = random() % (mirrors_left + 1).
MainLoopDrawOneMore(p) ==
    /\ pc[p] = "loop"
    /\ mirrors_left[p] # 0
    /\ \E r \in 0..mirrors_left[p] : i' = [i EXCEPT ![p] = r]
    /\ mirror' = [mirror EXCEPT ![p] = 0]
    /\ pc' = [pc EXCEPT ![p] = "walk"]
    /\ UNCHANGED <<devVars, G, mirrors_left, attempts, succeeded, exitStatus, msg, probVars>>

\* main(): the head of an iteration: the cursor at the start of the array
\* and i = random() % mirrors_left.
MainLoopDraw(p) ==
    /\ pc[p] = "loop"
    /\ mirrors_left[p] # 0
    /\ \E r \in 0..(mirrors_left[p] - 1) : i' = [i EXCEPT ![p] = r]
    /\ mirror' = [mirror EXCEPT ![p] = 0]
    /\ pc' = [pc EXCEPT ![p] = "walk"]
    /\ UNCHANGED <<devVars, G, mirrors_left, attempts, succeeded, exitStatus, msg, probVars>>

\* A pointer that is neither NULL nor an entry of the list.
Wild == MaxMirrors + 1

\* The values a read of G.mirrors[c] can give: the entry, and anything at
\* all beyond the end of the array.
ReadMirror(g, c) ==
    IF c < g.n_mirrors THEN {g.mirrors[c + 1]} ELSE {NULL, Wild}

\* The walk without the skipping of NULL entries: forward by i entries.
MainWalkNoSkip(p) ==
    /\ pc[p] = "walk"
    /\ mirror[p] <= G[p].n_mirrors + MaxMirrors
    /\ IF i[p] = 0
       THEN /\ pc' = [pc EXCEPT ![p] = "autoupdate"]
            /\ UNCHANGED <<mirror, i>>
       ELSE /\ mirror' = [mirror EXCEPT ![p] = @ + 1]
            /\ i' = [i EXCEPT ![p] = @ - 1]
            /\ UNCHANGED pc
    /\ UNCHANGED <<devVars, G, mirrors_left, attempts, succeeded, exitStatus, msg, probVars>>

\* main(): one step of "move forward by i non-NULL entries": over a NULL
\* entry, over a live entry that is not the i-th, or out of the walk at the
\* i-th live entry. The walk is given up one word beyond what the program
\* could read of the heap after the array.
MainWalk(p) ==
    /\ pc[p] = "walk"
    /\ mirror[p] <= G[p].n_mirrors + MaxMirrors
    /\ \E v \in ReadMirror(G[p], mirror[p]) :
         IF v = NULL
         THEN /\ mirror' = [mirror EXCEPT ![p] = @ + 1]
              /\ UNCHANGED <<pc, i>>
         ELSE IF i[p] = 0
         THEN /\ pc' = [pc EXCEPT ![p] = "autoupdate"]
              /\ UNCHANGED <<mirror, i>>
         ELSE /\ mirror' = [mirror EXCEPT ![p] = @ + 1]
              /\ i' = [i EXCEPT ![p] = @ - 1]
              /\ UNCHANGED pc
    /\ UNCHANGED <<devVars, G, mirrors_left, attempts, succeeded, exitStatus, msg, probVars>>

\* autoupdate(mirror): the function is empty; it returns, whatever the
\* mirror would have served.
autoupdate(g, m, usable) == Returned(g)

\* Tombstone() with the store forgotten.
TombstoneForgotten(g, c) == g

\* *G.mirrors = NULL: the first slot set to NULL, wherever the cursor is.
TombstoneFirst(g, c) ==
    IF 0 < g.n_mirrors THEN [g EXCEPT !.mirrors[1] = NULL] ELSE g

\* The mirror at the cursor c taken out of the array, the entries after it
\* moving up by one.
TombstoneCompact(g, c) ==
    [g EXCEPT !.mirrors =
        [k \in 1..Len(g.mirrors) |->
            IF k < c + 1 THEN g.mirrors[k]
            ELSE IF k < Len(g.mirrors) THEN g.mirrors[k + 1]
            ELSE NULL]]

\* *mirror = NULL at the cursor c (a store beyond the array is left out).
Tombstone(g, c) ==
    IF c < g.n_mirrors THEN [g EXCEPT !.mirrors[c + 1] = NULL] ELSE g

\* The end of an iteration without mirrors_left--.
MainAutoupdateNoCount(p) ==
    /\ pc[p] = "autoupdate"
    /\ \E usable \in BOOLEAN :
         \E v \in ReadMirror(G[p], mirror[p]) :
           LET r == autoupdate(G[p], v, usable) IN
           /\ attempts' = [attempts EXCEPT ![p] = @ (+) SetToBag({mirror[p]})]
           /\ succeeded' = [succeeded EXCEPT ![p] = @ \/ usable]
           /\ Step(p, [r EXCEPT !.G = Tombstone(r.G, mirror[p])], "loop")
    /\ i' = [i EXCEPT ![p] = 0]
    /\ mirror' = [mirror EXCEPT ![p] = 0]
    /\ UNCHANGED <<argv, platformOk, config, mirrors_left, probVars>>

\* main(): autoupdate(*mirror), then the mirror is taken off the list and
\* the iteration ends, and with it the block's i and mirror. usable is what
\* the world would have answered: whether download, verification and upgrade
\* from this mirror all succeed.
MainAutoupdate(p) ==
    /\ pc[p] = "autoupdate"
    /\ \E usable \in BOOLEAN :
         \E v \in ReadMirror(G[p], mirror[p]) :
           LET r == autoupdate(G[p], v, usable) IN
           /\ attempts' = [attempts EXCEPT ![p] = @ (+) SetToBag({mirror[p]})]
           /\ succeeded' = [succeeded EXCEPT ![p] = @ \/ usable]
           /\ Step(p, [r EXCEPT !.G = Tombstone(r.G, mirror[p])], "loop")
           /\ mirrors_left' = [mirrors_left EXCEPT ![p] =
                  IF r.exit = <<>> THEN @ - 1 ELSE @]
    /\ i' = [i EXCEPT ![p] = 0]
    /\ mirror' = [mirror EXCEPT ![p] = 0]
    /\ UNCHANGED <<argv, platformOk, config, probVars>>

\* The process is killed, wherever it is: nothing is left of it, the lock
\* it may have held included.
Kill(p) ==
    /\ pc[p] \notin {"exited", "killed"}
    /\ pc' = [pc EXCEPT ![p] = "killed"]
    /\ lockHolder' = ReleasedBy(p)
    /\ G' = [G EXCEPT ![p] = InitG]
    /\ mirrors_left' = [mirrors_left EXCEPT ![p] = 0]
    /\ i' = [i EXCEPT ![p] = 0]
    /\ mirror' = [mirror EXCEPT ![p] = 0]
    /\ attempts' = [attempts EXCEPT ![p] = EmptyBag]
    /\ succeeded' = [succeeded EXCEPT ![p] = FALSE]
    /\ UNCHANGED <<argv, platformOk, config, exitStatus, msg, probVars>>

Next ==
    \E p \in Procs :
        \/ MainParseArgs(p)
        \/ MainPlatform(p)
        \/ MainLoadSettings(p)
        \/ MainRandomize(p)
        \/ MainLock(p)
        \/ MainLoopEnd(p)
        \/ MainLoopDraw(p)
        \/ MainWalk(p)
        \/ MainAutoupdate(p)
        \/ Kill(p)

Spec == Init /\ [][Next]_vars

\* The steps of process p in the mirror loop.
LoopStep(p) ==
    \/ MainLoopEnd(p)
    \/ MainLoopDraw(p)
    \/ MainWalk(p)
    \/ MainAutoupdate(p)

\* The runs in which a process that is in the mirror loop goes on: the
\* scheduler does not starve a live process for ever, and every call the
\* loop makes returns.
FairSpec == Spec /\ \A p \in Procs : WF_vars(LoopStep(p))

\* ----------------------------------------- get_probability() on its own

\* The announcement times: the epoch, and a date of our days.
Dates == {0, 1700000000}

\* A quarter of a day, the step of the grid of differences.
Quarter == SecondsPerDay \div 4

\* The differences now - date of the small inputs: a clock that is behind,
\* every quarter of a day up to two days after the longest window, the
\* first second, and the last TailSeconds seconds of the window with its
\* end and the second after. In fallback mode, also a second before and
\* after the fallback step.
SmallDiffs(pr, fb) ==
    {-SecondsPerDay, -1, 1}
    \cup {k * Quarter : k \in 0..(4 * (MaxPriority + 2))}
    \cup {pr * SecondsPerDay + e : e \in (-TailSeconds)..1}
    \cup (IF fb
          THEN {(pr + 1) * SecondsPerDay + e : e \in {-1, 1}}
          ELSE {})

\* The differences of the big inputs: around the fallback step in fallback
\* mode, around the window's end otherwise.
BigDiffs(fb) ==
    IF fb
    THEN {(BigPriority + 1) * SecondsPerDay + e : e \in -3..1}
    ELSE {BigPriority * SecondsPerDay + e : e \in -1..1}

\* The inputs of get_probability(): priority, diff, fallback mode.
ProbInputs ==
    UNION {{<<pr, d, fb>> : d \in SmallDiffs(pr, fb)} :
              pr \in 0..MaxPriority, fb \in BOOLEAN}
    \cup UNION {{<<BigPriority, d, fb>> : d \in BigDiffs(fb)} : fb \in BOOLEAN}

ProbInit ==
    /\ argv = <<>>
    /\ platformOk = TRUE
    /\ config = GoodConfig(0, StringOption(<<"1">>))
    /\ ProcInit
    /\ \E in \in ProbInputs :
         /\ priority = in[1]
         /\ date \in Dates
         /\ now = date + in[2]
         /\ G = [p \in Procs |-> [InitG EXCEPT !.fallback = in[3]]]
    /\ uptime \in {0, MinUptime - 1, MinUptime, 2 * MinUptime}
    /\ uptimeReadable \in BOOLEAN
    /\ probability = <<>>

\* The call get_probability(date, priority): what it hands back is kept
\* (exit, msg and ret; the globals are not changed by it).
CallGetProbability ==
    /\ probability = <<>>
    /\ LET r == get_probability(G[1], date, priority) IN
       probability' = <<[exit |-> r.exit, msg |-> r.msg, ret |-> r.ret]>>
    /\ UNCHANGED <<devVars, procVars, date, priority, now, uptime, uptimeReadable>>

\* The next run, some time later: time(NULL) has moved on to a later one
\* of the inputs and get_probability(date, priority) is called on the same
\* manifest.
CallAgainLater ==
    /\ probability # <<>>
    /\ probability[1].exit = <<>>
    /\ \E in \in ProbInputs :
         /\ in[1] = priority
         /\ in[3] = G[1].fallback
         /\ in[2] > now - date
         /\ now' = date + in[2]
         /\ LET r == probability_at(G[1], in[2], priority) IN
            probability' = <<[exit |-> r.exit, msg |-> r.msg, ret |-> r.ret]>>
    /\ UNCHANGED <<devVars, procVars, date, priority, uptime, uptimeReadable>>

ProbNext ==
    \/ CallGetProbability
    \/ CallAgainLater

ProbSpec == ProbInit /\ [][ProbNext]_vars

\* ================================================================ claims

\* The process is past lock_autoupdater(), in the mirror loop.
InLoop(p) == pc[p] \in {"loop", "walk", "autoupdate"}

\* The process has left main() through the end of the mirror loop.
Exhausted(p) == pc[p] = "exited" /\ msg[p] = "no usable mirror found"

\* The "mirror" list of the configured branch, as the configuration file
\* has it.
ConfiguredMirrors ==
    LET found == {k \in 1..Len(config.sections) : config.sections[k].name = Stable}
    IN  IF config.loads /\ found # {}
        THEN config.sections[CHOOSE k \in found : TRUE].options["mirror"].list
        ELSE <<>>

\* The configurations that have every required setting (whatever "enabled"
\* says), and the configuration at hand being one of them.
GoodConfigs == {GoodConfig(n, e) : n \in 0..MaxMirrors, e \in EnabledOptions}
RequiredSettingsOk == config \in GoodConfigs

\* C1: a run that ends by exhausting the mirror loop has called autoupdate()
\* exactly N times, once on each of the N slots of the configured mirror
\* list, and at no moment of any run has a slot been attempted twice.
C1_EachMirrorOnce ==
    \A p \in Procs :
        /\ \A k \in BagToSet(attempts[p]) : CopiesIn(k, attempts[p]) = 1
        /\ Exhausted(p) =>
             /\ BagCardinality(attempts[p]) = Len(ConfiguredMirrors)
             /\ BagToSet(attempts[p]) = {k - 1 : k \in 1..Len(ConfiguredMirrors)}

\* C1 witness: a run over the longest list has ended by exhaustion.
C1_Witness ==
    \E p \in Procs :
        /\ Exhausted(p)
        /\ Len(ConfiguredMirrors) = MaxMirrors
        /\ BagCardinality(attempts[p]) = MaxMirrors

\* C2: at most one process is in the mirror loop at any time, and it holds
\* the lock; a process whose lock_autoupdater() finds the lock held leaves
\* in that very step, with status 1 and without having attempted a mirror.
C2_SingleInstance ==
    /\ [](/\ Cardinality({p \in Procs : InLoop(p)}) <= 1
          /\ \A p \in Procs :
               /\ InLoop(p) => lockHolder = p
               /\ (pc[p] = "exited" /\ msg[p] = "another instance is currently running")
                    => exitStatus[p] = <<1>> /\ attempts[p] = EmptyBag)
    /\ [][\A p \in Procs :
            (pc[p] = "lock" /\ lockHolder # NULL /\ pc'[p] # pc[p])
                => /\ pc'[p] \in {"exited", "killed"}
                   /\ lockHolder' = lockHolder
                   /\ attempts'[p] = EmptyBag]_vars

\* C2 witness: one process is in the loop while another has been turned
\* away by the lock.
C2_Witness ==
    \E p, q \in Procs :
        /\ InLoop(p)
        /\ pc[q] = "exited"
        /\ msg[q] = "another instance is currently running"
        /\ exitStatus[q] = <<1>>

\* C3 (as claimed): once an attempt has succeeded (download, verification
\* and upgrade from the mirror all succeed), the run has ended at once with
\* status 0, so that no further mirror is attempted.
C3_SuccessEndsRun ==
    \A p \in Procs :
        succeeded[p] => pc[p] = "exited" /\ exitStatus[p] = <<0>>

\* C4: a run that leaves the mirror loop leaves it with no live mirror
\* left, with status 1 and the message "no usable mirror found", and, when
\* every attempt has failed, after exactly N attempts; no run that has got
\* into the loop ends with status 0.
C4_ExhaustionFails ==
    [][\A p \in Procs :
         (InLoop(p) /\ pc'[p] = "exited")
             => /\ mirrors_left[p] = 0
                /\ exitStatus'[p] = <<1>>
                /\ msg'[p] = "no usable mirror found"
                /\ ~succeeded'[p] =>
                     BagCardinality(attempts'[p]) = Len(ConfiguredMirrors)]_vars

\* C4 witness: every attempt over the longest list has failed and the run
\* has ended with status 1.
C4_Witness ==
    \E p \in Procs :
        /\ Exhausted(p)
        /\ ~succeeded[p]
        /\ exitStatus[p] = <<1>>
        /\ BagCardinality(attempts[p]) = MaxMirrors

\* The uniform draws of [0,1) a go/no-go decision could make.
Draws == {Float(k, -2) : k \in 0..3}

\* The rollout probability of the manifest at hand, for process p.
RolloutProbability(p) == get_probability(G[p], date, priority).ret

\* C5 (as claimed): a run that is not forced compares the rollout
\* probability with a uniform draw before it takes the lock and, the draw
\* being >= the probability, ends with status 0: whatever draw is >= the
\* probability, the run is not in the mirror loop, holds no lock and has
\* attempted no mirror.
C5_SkipBeforeLock ==
    \A p \in Procs : \A d \in Draws :
        (~G[p].force /\ FloatGE(d, RolloutProbability(p)))
            => /\ pc[p] \in {"parse_args", "platform", "load_settings",
                             "randomize", "lock", "exited", "killed"}
               /\ lockHolder # p
               /\ attempts[p] = EmptyBag

\* The option "enabled" of the settings section is absent or is not "1".
ConfigDisabled ==
    ~(/\ config.loads
      /\ \E k \in 1..Len(config.sections) :
           /\ config.sections[k].type = "settings"
           /\ config.sections[k].options["enabled"] = StringOption(<<"1">>))

\* C6: a run without the force flag on a disabled configuration never
\* reaches lock_autoupdater(): it holds no lock and attempts no mirror; and
\* with no option given, the hardware supported and the required settings in
\* place, it ends with status 0, "autoupdater is disabled".
C6_DisabledIsNoOp ==
    (ConfigDisabled /\ \A k \in 1..Len(argv) : argv[k] # OPTION_FORCE)
        => \A p \in Procs :
             /\ pc[p] \in {"parse_args", "platform", "load_settings", "exited", "killed"}
             /\ lockHolder # p
             /\ attempts[p] = EmptyBag
             /\ (argv = <<>> /\ platformOk /\ RequiredSettingsOk /\ pc[p] = "exited")
                  => exitStatus[p] = <<0>> /\ msg[p] = "autoupdater is disabled"

\* C6 witness: a run on a configuration with enabled "0" has ended with
\* status 0 at the end of load_settings().
C6_Witness ==
    \E p \in Procs :
        /\ argv = <<>>
        /\ RequiredSettingsOk
        /\ \E k \in 1..Len(config.sections) :
             config.sections[k].options["enabled"] = StringOption(<<"0">>)
        /\ pc[p] = "exited"
        /\ exitStatus[p] = <<0>>
        /\ msg[p] = "autoupdater is disabled"
        /\ attempts[p] = EmptyBag

\* C7 (as claimed): a run started with the force flag on a configuration
\* that is valid but for "enabled" does not end before lock_autoupdater() is
\* called: when it has ended, it has ended in lock_autoupdater() or after it
\* (or on the clock failing in randomize()).
C7_ForceReachesLock ==
    (argv = <<OPTION_FORCE>> /\ platformOk /\ RequiredSettingsOk)
        => \A p \in Procs :
             pc[p] = "exited"
                 => msg[p] \in {"clock_gettime", "unable to open lock file",
                                "another instance is currently running",
                                "no usable mirror found"}

\* The configurations with a required setting missing or invalid, and the
\* configuration at hand being one of them.
AllBadConfigs == UNION {BadConfigs(e) : e \in EnabledOptions}
RequiredSettingBad == config \in AllBadConfigs

\* C8: with a required setting missing or invalid, no run gets past
\* load_settings(): none holds the lock or attempts a mirror, and a run that
\* got to read its settings (no option given) ends with status 1.
C8_BadConfigIsFatal ==
    RequiredSettingBad
        => \A p \in Procs :
             /\ pc[p] \in {"parse_args", "platform", "load_settings", "exited", "killed"}
             /\ lockHolder # p
             /\ attempts[p] = EmptyBag
             /\ (argv = <<>> /\ pc[p] = "exited") => exitStatus[p] = <<1>>

\* C8 witness: good_signatures is "0" and the run has ended with status 1
\* on it.
C8_Witness ==
    \E p \in Procs :
        /\ RequiredSettingBad
        /\ \E k \in 1..Len(config.sections) :
             config.sections[k].options["good_signatures"] = StringOption(<<"0">>)
        /\ pc[p] = "exited"
        /\ exitStatus[p] = <<1>>
        /\ msg[p] = "invalid value for option"

\* C9: the lock is held by a process from lock_autoupdater() on for as long
\* as the process lives and by no process that has ended, however it ended;
\* and lock_autoupdater() finds the lock held only while such a process
\* lives, so that a run started after the holder has gone gets the lock.
C9_LockFollowsProcess ==
    /\ [](\A p \in Procs : lockHolder = p <=> InLoop(p))
    /\ [][\A q \in Procs :
            (pc[q] = "lock" /\ pc'[q] = "exited"
                /\ msg'[q] = "another instance is currently running")
                => \E p \in Procs \ {q} : InLoop(p)]_vars
    /\ [][\A q \in Procs :
            (pc[q] = "lock" /\ pc'[q] = "exited" /\ ~\E p \in Procs : InLoop(p))
                => msg'[q] = "unable to open lock file"]_vars

\* C9 witness: one holder has run to the end of main() and another process
\* holds the lock after it.
C9_Witness ==
    \E p, q \in Procs :
        /\ Exhausted(p)
        /\ lockHolder = q
        /\ InLoop(q)

\* What get_probability() returned in fallback mode, and its inputs.
FallbackReturn == probability # <<>> /\ G[1].fallback /\ probability[1].exit = <<>>
Diff == now - date
FallbackStepAt == priority * SecondsPerDay + SecondsPerDay

RolloutReturn == probability # <<>> /\ ~G[1].fallback /\ probability[1].exit = <<>>
WindowEnd == priority * SecondsPerDay

\* C11: outside of fallback mode, whenever diff >= 0 and diff >=
\* priority*86400, get_probability() returns, and returns exactly 1; with
\* priority 0 this is every diff >= 0.
C11_ElapsedWindowIsOne ==
    (probability # <<>> /\ ~G[1].fallback /\ Diff >= 0 /\ Diff >= WindowEnd)
        => /\ probability[1].exit = <<>>
           /\ probability[1].ret = FloatOne

\* C11 witness: at the very end of a window of at least a day, 1 was
\* returned.
C11_Witness ==
    /\ RolloutReturn
    /\ priority > 0
    /\ Diff = WindowEnd
    /\ probability[1].ret = FloatOne

\* C12: with diff < 0, in fallback mode or not, get_probability() ends the
\* run with status 1 when the uptime cannot be read, and otherwise returns 0
\* when the uptime is below 600 s and 0.75^priority = 3^priority /
\* 4^priority from 600 s on.
C12_WrongClock ==
    (probability # <<>> /\ Diff < 0)
        => IF ~uptimeReadable
           THEN /\ probability[1].exit = <<1>>
                /\ probability[1].msg = "unable to determine uptime"
           ELSE /\ probability[1].exit = <<>>
                /\ probability[1].ret =
                     IF uptime < MinUptime THEN FloatZero
                     ELSE Float(Pow(3, priority), -2 * priority)

\* C12 witness: the clock is a second behind the manifest, the uptime is
\* exactly 600 s and 9/16 was returned for priority 2.
C12_Witness ==
    /\ probability # <<>>
    /\ Diff = -1
    /\ uptimeReadable
    /\ uptime = MinUptime
    /\ priority = 2
    /\ probability[1].ret = Float(9, -4)

\* get_probability() returned inside the rollout window, outside of
\* fallback mode.
InWindow == RolloutReturn /\ 0 <= Diff /\ Diff < WindowEnd

AboveOne == Float(MantissaMin + 2, 1 - FloatMantissaBits)
Slack == Float(1, 3 - FloatMantissaBits)

Given == {argv[k] : k \in 1..Len(argv)}

\* C14 (as claimed): each flag is toggled on its own and only the help
\* option prints the usage and exits 0: a run that has ended on the usage
\* with status 0 was given the help option, and a run given only branch,
\* force and fallback options has left parse_args() with exactly the given
\* ones set, and has not ended in it.
C14_FlagsIndependent ==
    \A p \in Procs :
        /\ (pc[p] = "exited" /\ msg[p] = "usage" /\ exitStatus[p] = <<0>>)
             => OPTION_HELP \in Given
        /\ (Given \subseteq {OPTION_BRANCH, OPTION_FORCE, OPTION_FALLBACK}
               /\ pc[p] \notin {"parse_args", "killed"})
             => /\ ~(pc[p] = "exited" /\ msg[p] = "usage")
                /\ G[p].force <=> OPTION_FORCE \in Given
                /\ G[p].fallback <=> OPTION_FALLBACK \in Given

\* The slots of the array that hold a mirror, the number of them before
\* slot c, and the n-th of them in array order (n from 0), which is the end
\* of the array when there are not that many.
LiveSlots(g) == {c \in 0..(g.n_mirrors - 1) : g.mirrors[c + 1] # NULL}
LiveBefore(g, c) == Cardinality({k \in LiveSlots(g) : k < c})
NthLive(g, n) ==
    IF \E c \in LiveSlots(g) : LiveBefore(g, c) = n
    THEN CHOOSE c \in LiveSlots(g) : LiveBefore(g, c) = n
    ELSE g.n_mirrors

\* C15: with k live entries, the draw is one of 0..k-1 and the walk ends
\* on exactly the i-th live slot in array order for the draw i: the slot
\* that is i live entries ahead of the cursor is the i-th live one when the
\* walk starts, stays the same at every step of the walk, and is where the
\* cursor stands when the walk ends. The draws 0..k-1 select the k live
\* slots one to one, so that any live mirror can be the next one.
C15_DrawSelectsNthLive ==
    /\ [](\A p \in Procs :
            pc[p] = "loop" =>
                LET picks == [r \in 0..(mirrors_left[p] - 1) |-> NthLive(G[p], r)] IN
                /\ {picks[r] : r \in DOMAIN picks} = LiveSlots(G[p])
                /\ \A r, t \in DOMAIN picks : picks[r] = picks[t] => r = t)
    /\ [][\A p \in Procs :
            /\ (pc[p] = "loop" /\ pc'[p] = "walk")
                 => /\ i'[p] \in 0..(mirrors_left[p] - 1)
                    /\ NthLive(G[p], LiveBefore(G[p], mirror'[p]) + i'[p])
                         = NthLive(G[p], i'[p])
            /\ (pc[p] = "walk" /\ pc'[p] \in {"walk", "autoupdate"})
                 => NthLive(G[p], LiveBefore(G[p], mirror'[p]) + i'[p])
                      = NthLive(G[p], LiveBefore(G[p], mirror[p]) + i[p])
            /\ (pc[p] = "walk" /\ pc'[p] = "autoupdate")
                 => /\ i[p] = 0
                    /\ mirror'[p] = NthLive(G[p], LiveBefore(G[p], mirror[p]))
                    /\ mirror'[p] \in LiveSlots(G[p])]_vars

\* C15 witness: with slot 0 taken off a list of three, the walk has gone
\* over the tombstone and over the live slot 1 and has ended on slot 2.
C15_Witness ==
    \E p \in Procs :
        /\ pc[p] = "autoupdate"
        /\ G[p].n_mirrors = 3
        /\ LiveSlots(G[p]) = {1, 2}
        /\ mirror[p] = 2

\* C16: in the mirror loop the array keeps its length, an entry that is
\* NULL stays NULL, and the entries change only at the end of an iteration:
\* there exactly one entry changes, the one at the cursor, which was the
\* mirror attempted and becomes NULL, every other entry keeping its value
\* and its place.
C16_OneSlotPerIteration ==
    [][\A p \in Procs :
         (InLoop(p) /\ pc'[p] # "killed")
             => LET old == G[p].mirrors
                    new == G'[p].mirrors
                IN  /\ Len(new) = Len(old)
                    /\ G'[p].n_mirrors = G[p].n_mirrors
                    /\ \A k \in 1..Len(old) : old[k] = NULL => new[k] = NULL
                    /\ IF pc[p] = "autoupdate" /\ pc'[p] # "autoupdate"
                       THEN /\ {k \in 1..Len(old) : new[k] # old[k]} = {mirror[p] + 1}
                            /\ old[mirror[p] + 1] # NULL
                            /\ new[mirror[p] + 1] = NULL
                       ELSE new = old]_vars

\* C16 witness: after one iteration over a list of three, the middle slot
\* is NULL and the two others are as they were.
C16_Witness ==
    \E p \in Procs :
        /\ pc[p] = "loop"
        /\ G[p].mirrors = <<MirrorList(3)[1], NULL, MirrorList(3)[3]>>
        /\ attempts[p] = SetToBag({1})

\* C17: the mirror loop ends. An iteration that ends takes exactly 1 off
\* mirrors_left, which was above 0; a step of the walk moves the cursor
\* forward by one and leaves it inside the array; a process in the loop has
\* made N - mirrors_left attempts, so at most N; and every process that is
\* in the loop is out of it in the end, by exit or by being killed.
C17_LoopTerminates ==
    /\ [][\A p \in Procs :
            /\ (pc[p] = "autoupdate" /\ pc'[p] = "loop")
                 => /\ mirrors_left[p] > 0
                    /\ mirrors_left'[p] = mirrors_left[p] - 1
            /\ (pc[p] = "walk" /\ pc'[p] = "walk" /\ mirror'[p] # mirror[p])
                 => /\ mirror'[p] = mirror[p] + 1
                    /\ mirror'[p] < G[p].n_mirrors]_vars
    /\ [](\A p \in Procs :
            InLoop(p) => BagCardinality(attempts[p]) + mirrors_left[p] = G[p].n_mirrors)
    /\ \A p \in Procs : InLoop(p) ~> (pc[p] \in {"exited", "killed"})

\* C17 witness: a run over the longest list has left the loop after
\* MaxMirrors iterations, with mirrors_left at 0.
C17_Witness ==
    \E p \in Procs :
        /\ Exhausted(p)
        /\ G[p].n_mirrors = MaxMirrors
        /\ mirrors_left[p] = 0
        /\ BagCardinality(attempts[p]) = MaxMirrors
        /\ LiveSlots(G[p]) = {}

\* C18: the cursor never leaves the array. Whenever *mirror is read, in
\* the walk or for the call of autoupdate(), the cursor is at one of the
\* n_mirrors slots; during the walk more than i live entries lie at or
\* after the cursor; and the slot that is passed to autoupdate() and then
\* set to NULL holds a mirror.
C18_CursorInsideArray ==
    \A p \in Procs :
        /\ pc[p] \in {"walk", "autoupdate"}
             => /\ 0 <= mirror[p]
                /\ mirror[p] < G[p].n_mirrors
                /\ Cardinality({c \in LiveSlots(G[p]) : c >= mirror[p]}) > i[p]
        /\ pc[p] = "autoupdate"
             => /\ mirror[p] \in LiveSlots(G[p])
                /\ ReadMirror(G[p], mirror[p]) = {G[p].mirrors[mirror[p] + 1]}

\* C18 witness: the walk has come to the last slot of the longest list,
\* every slot before it being NULL.
C18_Witness ==
    \E p \in Procs :
        /\ pc[p] = "walk"
        /\ G[p].n_mirrors = MaxMirrors
        /\ mirror[p] = MaxMirrors - 1
        /\ LiveSlots(G[p]) = {MaxMirrors - 1}

\* C19: at the head of every iteration, and through the iteration until
\* its mirror is taken off, mirrors_left is the number of entries of
\* G.mirrors that are not NULL; so it is 0 exactly when every slot is NULL.
C19_MirrorsLeftCountsLive ==
    \A p \in Procs :
        InLoop(p)
            => /\ mirrors_left[p] = Cardinality(LiveSlots(G[p]))
               /\ mirrors_left[p] = 0 <=>
                    \A k \in 1..G[p].n_mirrors : G[p].mirrors[k] = NULL

\* C19 witness: at the head of the last iteration over a list of three,
\* one mirror is left, in the middle slot.
C19_Witness ==
    \E p \in Procs :
        /\ pc[p] = "loop"
        /\ G[p].n_mirrors = 3
        /\ LiveSlots(G[p]) = {1}
        /\ mirrors_left[p] = 1

\* The process has come to the call of lock_autoupdater(), or beyond.
ReachedLock(p) ==
    \/ pc[p] = "lock"
    \/ InLoop(p)
    \/ /\ pc[p] = "exited"
       /\ msg[p] \in {"unable to open lock file",
                      "another instance is currently running",
                      "no usable mirror found"}

\* The option "enabled" is absent from the settings section.
EnabledAbsent ==
    /\ config.loads
    /\ \E k \in 1..Len(config.sections) : config.sections[k].type = "settings"
    /\ \A k \in 1..Len(config.sections) :
         config.sections[k].type = "settings"
             => config.sections[k].options["enabled"] = NoOption

\* C20: a run comes to lock_autoupdater() only if the hardware is
\* supported, every required setting has loaded, and "enabled" is "1" or
\* the run is forced. The enabled test comes after the required settings:
\* a disabled configuration with a required setting missing or invalid
\* ends with status 1, not 0; and an absent "enabled" counts as disabled.
C20_LockNeedsEnabled ==
    \A p \in Procs :
        /\ ReachedLock(p)
             => /\ platformOk
                /\ RequiredSettingsOk
                /\ ~ConfigDisabled \/ G[p].force
        /\ (argv = <<>> /\ platformOk /\ pc[p] = "exited")
             => /\ RequiredSettingBad => exitStatus[p] = <<1>>
                /\ (RequiredSettingsOk /\ EnabledAbsent)
                     => /\ exitStatus[p] = <<0>>
                        /\ msg[p] = "autoupdater is disabled"

\* C20 witness: with enabled "0" and no good_signatures the run has ended
\* with status 1.
C20_Witness ==
    \E p \in Procs :
        /\ argv = <<>>
        /\ platformOk
        /\ ConfigDisabled
        /\ \E k \in 1..Len(config.sections) :
             /\ config.sections[k].options["enabled"] = StringOption(<<"0">>)
        /\ \E k \in 1..Len(config.sections) :
             /\ config.sections[k].name = Stable
             /\ config.sections[k].options["good_signatures"] = NoOption
        /\ pc[p] = "exited"
        /\ exitStatus[p] = <<1>>
        /\ msg[p] = "unable to load option"

====
